---- MODULE Spec2Model ----
(***************************************************************************)
(* State-machine model of the admin panel's page controllers:              *)
(*   - the useDebounce hook (categories/add/page.tsx:40-47 and its copies) *)
(*   - the Category page (categories/add/page.tsx)                         *)
(*   - the list fetch of the Category, FAQ and Vendors pages               *)
(*   - the create/update forms of the Category, Sub-category, Blog and FAQ *)
(*     pages and their zod schemas                                         *)
(*   - the token gate: DashboardPage, LoginPage's onSubmit and the axios   *)
(*     interceptors                                                        *)
(*   - the image preview of the Category, Sub-category and Blog forms      *)
(*   - the Sub-category page's notification banner                         *)
(*   - the Vendors page's status update (vendors/page.tsx)                 *)
(*   - the submit, edit and delete handlers of the Category, Sub-category, *)
(*     Blog and FAQ pages, side by side                                    *)
(* Each part has its own specification; the variables of the other parts   *)
(* stay at their idle values.                                              *)
(* Time is discrete: one Tick is TickMs milliseconds of wall-clock time.   *)
(***************************************************************************)
EXTENDS Integers, Sequences, FiniteSets, Bags, TLC

\* ---------------------------------------------------------------- bounds
TickMs == 300
\* The user starts no further asynchronous work (typing a search, submitting,
\* confirming a delete) while this many timers and requests are outstanding.
MaxInFlight == 2

\* ------------------------------------------------------ program constants
DefaultDelay == 500
SearchDelay == 600

\* The inputs a caller passes to useDebounce.
HookValues == {"", "a", "ab", "abc", "b"}
\* The texts a user types into the page's search box: empty and non-empty.
SearchTexts == {"", "a"}

Min(a, b) == IF a < b THEN a ELSE b

\* Server-assigned identifiers of the rows a list response may carry.
Ids == {"c1", "c2"}
NoId == "null"
\* A list as the server returns it: the set of the ids of its rows.
Lists == SUBSET Ids
\* axios params without a search key.
NoParam == "undefined"

VARIABLES
  \* useDebounce
  value,            \* the hook's input (the page's searchText)
  delay,            \* the hook's delay argument
  debouncedValue,   \* useState(value) inside the hook
  handlers,         \* pending setTimeout handles: [val, elapsed]
  heldMs            \* history: how long the input has held its current value

hookVars == <<value, delay, debouncedValue, handlers, heldMs>>

VARIABLES
  \* AddCategoryPage
  categories,       \* useState<CategoryRow[]>([])
  isLoading, isFetching, isDeleting,
  editingId,
  formName,         \* the form's name field: its length, or Undefined
  showDeletePopup, categoryToDelete,
  inflight,         \* bag of the HTTP requests awaiting their response
  submitCall,       \* the running onSubmit: the values its closure captured
  deleteCall,       \* the running handleConfirmDelete: its captured values
  out,              \* what the last step handled and emitted (response, toasts)
  lastData,         \* history: the data of the last list response that carried any
  deletedEditing    \* history: the id whose DELETE succeeded while it was being edited

pageVars == <<categories, isLoading, isFetching, isDeleting, editingId, formName,
              showDeletePopup, categoryToDelete, inflight, submitCall, deleteCall, out,
              lastData, deletedEditing>>
VARIABLES
  \* fetchCategories / fetchFAQs / fetchVendors, each on its own page
  fetchPage,        \* the page whose list fetch is modelled
  rowData,          \* the list the page displays
  fetchBusy,        \* isFetching (isLoading on the Vendors page)
  fetchPending,     \* the number of list requests awaiting their response
  fetchOut          \* what the last step handled and emitted

fetchVars == <<fetchPage, rowData, fetchBusy, fetchPending, fetchOut>>

VARIABLES
  \* the create/update forms (react-hook-form with a zod resolver)
  formPage,         \* the page whose form is modelled
  formValues,       \* the form's field values: the length of each string
  formEditing,      \* editingId / editingSubCategory is set
  formLoading,      \* isLoading
  formSent          \* the create or update request the last step issued
formVars == <<formPage, formValues, formEditing, formLoading, formSent>>

VARIABLES
  \* the token gate: localStorage, the router, the axios instance, DashboardPage
  authToken,        \* localStorage["auth_token"]
  pathname,         \* window.location.pathname
  routerPush,       \* the target of a router.push that has not completed yet
  apiPending,       \* requests sent through the axios instance, not yet answered
  isAuthenticated,  \* DashboardPage's useState(false)
  effectPending,    \* DashboardPage is mounted and its effect has not run yet
  tokenRead,        \* what the effect's localStorage.getItem returned
  authOut           \* what the response interceptor did with the last response
authVars == <<authToken, pathname, routerPush, apiPending, isAuthenticated,
              effectPending, tokenRead, authOut>>

VARIABLES
  \* the image preview of the Category, Sub-category and Blog forms
  previewPage,
  image,            \* watch('image')
  previewImage,     \* useState<string | null>(null)
  objectUrls,       \* the object URLs created and not revoked
  effectUrl,        \* the URL the preview effect's cleanup will revoke
  nextUrl           \* the next URL URL.createObjectURL returns
previewVars == <<previewPage, image, previewImage, objectUrls, effectUrl, nextUrl>>

VARIABLES
  \* the Sub-category page's notification banner
  notification,     \* useState<{type, message} | null>(null)
  noteTimers,       \* the pending auto-hide timeouts
  shownMs,          \* how long the current notification has been displayed
  noteOut           \* what the last step did to the notification
noteVars == <<notification, noteTimers, shownMs, noteOut>>

VARIABLES
  \* VendorsPage
  vendorRows,       \* rowData: the ids of the KYC rows displayed
  vendorLoading,    \* isLoading
  isUpdating,       \* useState<string | null>(null): one KYC id, or null
  vendorCalls,      \* the page's requests in flight
  vendorOut         \* what the last step emitted
vendorVars == <<vendorRows, vendorLoading, isUpdating, vendorCalls, vendorOut>>
VARIABLES
  \* The create/update/delete flow of the Category, Sub-category, Blog and FAQ pages
  crudPage,         \* the page that is mounted
  crudRows,         \* the ids of the rows of the page's list state
  crudLoading,      \* isLoading
  crudFetching,     \* isFetching
  crudDeleting,     \* isDeleting
  crudEditing,      \* editingId / editingSubCategory: an id, or null
  crudPopup,        \* showDeletePopup
  crudTarget,       \* categoryToDelete / subCategoryToDelete / blogToDelete: an id, or null
  crudCalls,        \* bag of the page's requests in flight
  crudOut           \* what the last step was and the response it handled
crudVars == <<crudPage, crudRows, crudLoading, crudFetching, crudDeleting, crudEditing,
              crudPopup, crudTarget, crudCalls, crudOut>>

\* The variables of the other pages, which the Category page leaves alone.
offPage == <<fetchVars, formVars, authVars, previewVars, noteVars, vendorVars, crudVars>>

vars == <<value, delay, debouncedValue, handlers, heldMs,
          categories, isLoading, isFetching, isDeleting, editingId, formName,
          showDeletePopup, categoryToDelete, inflight, submitCall, deleteCall, out,
          lastData, deletedEditing,
          fetchPage, rowData, fetchBusy, fetchPending, fetchOut,
          formPage, formValues, formEditing, formLoading, formSent,
          authToken, pathname, routerPush, apiPending, isAuthenticated,
          effectPending, tokenRead, authOut,
          previewPage, image, previewImage, objectUrls, effectUrl, nextUrl,
          notification, noteTimers, shownMs, noteOut,
          vendorRows, vendorLoading, isUpdating, vendorCalls, vendorOut,
          crudPage, crudRows, crudLoading, crudFetching, crudDeleting, crudEditing,
          crudPopup, crudTarget, crudCalls, crudOut>>

\* ------------------------------------------------------------ useDebounce

\* setTimeout(() => setDebouncedValue(value), delay): a handle capturing value.
SetTimeout(hs, v) == hs \cup {[val |-> v, elapsed |-> 0]}

\* Mutant: the effect returns no cleanup, so a superseded timeout stays pending.
ClearTimeoutNever(hs, v) == hs

\* return () => clearTimeout(handler): the cleanup of the effect that ran for v
\* clears the timeout that effect created.
ClearTimeout(hs, v) == {h \in hs : h.val # v}

\* The effect of useDebounce re-runs when value changes: cleanup, then a new timeout.
UseDebounceEffect(hs, old, new) == SetTimeout(ClearTimeout(hs, old), new)

\* Time passing: every pending timeout and the history clock advance by d ms.
Advance(hs, d) ==
  {[val |-> h.val, elapsed |-> Min(h.elapsed + TickMs, d)] : h \in hs}

\* A timeout may run its callback once its delay has elapsed.
Due(h) == h.elapsed >= delay

\* The Category page before it is mounted.
PageIdle ==
  /\ categories = {}
  /\ isLoading = FALSE /\ isFetching = FALSE /\ isDeleting = FALSE
  /\ editingId = NoId
  /\ formName = -1
  /\ showDeletePopup = FALSE /\ categoryToDelete = NoId
  /\ inflight = EmptyBag
  /\ submitCall = [active |-> FALSE, editingId |-> NoId, search |-> ""]
  /\ deleteCall = [active |-> FALSE, target |-> NoId, search |-> ""]
  /\ out = [verb |-> "none", resp |-> "none", data |-> {}, hasData |-> FALSE,
            toasts |-> <<>>]
  /\ lastData = {}
  /\ deletedEditing = NoId

\* The list-fetch pages before they are mounted.
FetchIdle ==
  /\ fetchPage = "categories"
  /\ rowData = {}
  /\ fetchBusy = FALSE
  /\ fetchPending = 0
  /\ fetchOut = [resp |-> "none", success |-> FALSE, hasData |-> FALSE, toasts |-> <<>>]

\* The forms before any page is mounted.
FormIdle ==
  /\ formPage = "category"
  /\ formValues = [name |-> -1]
  /\ formEditing = FALSE /\ formLoading = FALSE
  /\ formSent = [verb |-> "none", values |-> [name |-> -1]]

\* No token stored, the login page displayed, nothing in flight.
AuthIdle ==
  /\ authToken = "null"
  /\ pathname = "/login"
  /\ routerPush = <<>>
  /\ apiPending = EmptyBag
  /\ isAuthenticated = FALSE /\ effectPending = FALSE
  /\ tokenRead = "unread"
  /\ authOut = [status |-> 0, rejected |-> FALSE, replaced |-> FALSE]

PreviewIdle ==
  /\ previewPage = "category"
  /\ image = "undefined"
  /\ previewImage = 0
  /\ objectUrls = {}
  /\ effectUrl = 0
  /\ nextUrl = 1

NoteIdle ==
  /\ notification = [id |-> 0, type |-> "null", message |-> "null"]
  /\ noteTimers = {}
  /\ shownMs = 0
  /\ noteOut = "none"

\* The useDebounce hook of a page that is not modelled.
HookIdle ==
  /\ value = "" /\ delay = SearchDelay /\ debouncedValue = ""
  /\ handlers = {} /\ heldMs = 0

VendorIdle ==
  /\ vendorRows = {}
  /\ vendorLoading = FALSE
  /\ isUpdating = "null"
  /\ vendorCalls = EmptyBag
  /\ vendorOut = [step |-> "none", toasts |-> <<>>]

\* The create/update/delete flow before a page is mounted.
CrudIdle ==
  /\ crudPage = "none"
  /\ crudRows = {}
  /\ crudLoading = FALSE /\ crudFetching = FALSE /\ crudDeleting = FALSE
  /\ crudEditing = "null"
  /\ crudPopup = FALSE /\ crudTarget = "null"
  /\ crudCalls = EmptyBag
  /\ crudOut = [step |-> "none", resp |-> "none"]

RestIdle == FormIdle /\ AuthIdle /\ PreviewIdle /\ NoteIdle /\ VendorIdle /\ CrudIdle

HookInit ==
  /\ PageIdle
  /\ FetchIdle
  /\ RestIdle
  /\ value \in HookValues
  /\ delay \in {DefaultDelay, SearchDelay}
  /\ debouncedValue = value
  /\ handlers = SetTimeout({}, value)
  /\ heldMs = 0

\* The caller re-renders with a new input value.
SetValue(v) ==
  /\ v # value
  /\ value' = v
  /\ handlers' = UseDebounceEffect(handlers, value, v)
  /\ heldMs' = 0
  /\ UNCHANGED <<delay, debouncedValue>>

Tick ==
  /\ handlers' = Advance(handlers, delay)
  /\ heldMs' = Min(heldMs + TickMs, delay)
  /\ UNCHANGED <<value, delay, debouncedValue>>

\* The timeout callback: setDebouncedValue(value) with the captured value.
TimeoutFires(h) ==
  /\ h \in handlers
  /\ Due(h)
  /\ debouncedValue' = h.val
  /\ handlers' = handlers \ {h}
  /\ UNCHANGED <<value, delay, heldMs>>

\* The hook alone, under a caller that only changes its input.
HookSetValue == \E v \in HookValues : SetValue(v) /\ UNCHANGED pageVars /\ UNCHANGED offPage
HookTick == Tick /\ UNCHANGED pageVars /\ UNCHANGED offPage
HookTimeout == \E h \in handlers : TimeoutFires(h) /\ UNCHANGED pageVars /\ UNCHANGED offPage

HookNext ==
  \/ HookSetValue
  \/ HookTick
  \/ HookTimeout

SpecDebounce == HookInit /\ [][HookNext]_vars

\* Timers do fire and time does pass.
FairDebounce ==
  /\ SpecDebounce
  /\ WF_vars(HookTick)
  /\ WF_vars(HookTimeout)

\* -------------------------------------------------------- AddCategoryPage

searchText == value
debouncedSearch == debouncedValue

\* categorySchema: name: z.string().min(2)
CategoryNameMin == 2
\* The lengths of the names a user types or a row carries: too short, and valid.
NameLens == {CategoryNameMin - 1, CategoryNameMin}
\* A field the form holds no value for.
Undefined == -1

\* What a step emits: the response it handled (if any) and the toasts it raised.
Out(verb, r, toasts) ==
  [verb |-> verb, resp |-> r.kind, data |-> r.data, hasData |-> r.hasData,
   toasts |-> toasts]
NoResponse == [kind |-> "none", data |-> {}, hasData |-> FALSE, success |-> FALSE]
Quiet == Out("none", NoResponse, <<>>)

\* The responses the backend may give to a list request.
ListResponses ==
  {[kind |-> "throw", data |-> {}, hasData |-> FALSE, success |-> FALSE],
   [kind |-> "nobody", data |-> {}, hasData |-> FALSE, success |-> FALSE],
   [kind |-> "body", data |-> {}, hasData |-> FALSE, success |-> TRUE]}
  \cup {[kind |-> "body", data |-> d, hasData |-> TRUE, success |-> TRUE] : d \in Lists}

\* The responses the backend may give to a create, update or delete request.
MutationResponses ==
  {[kind |-> "throw", data |-> {}, hasData |-> FALSE, success |-> FALSE],
   [kind |-> "nobody", data |-> {}, hasData |-> FALSE, success |-> FALSE],
   [kind |-> "body", data |-> {}, hasData |-> FALSE, success |-> FALSE],
   [kind |-> "body", data |-> {}, hasData |-> FALSE, success |-> TRUE]}

\* Mutant: the search key is sent even when the search text is empty.
ParamsAlways(search) == search

\* if (search) params.search = search
Params(search) == IF search = "" THEN NoParam ELSE search

Request(verb, arg, owner) == [verb |-> verb, arg |-> arg, owner |-> owner]
Send(bag, req) == bag (+) SetToBag({req})
Receive(bag, req) == bag (-) SetToBag({req})
Pending(verbs, owner) ==
  {r \in BagToSet(inflight) : r.verb \in verbs /\ r.owner = owner}

\* Fewer than MaxInFlight timers and requests are outstanding.
Room == BagCardinality(inflight) + Cardinality(handlers) < MaxInFlight

NoSubmit == [active |-> FALSE, editingId |-> NoId, search |-> ""]
NoDelete == [active |-> FALSE, target |-> NoId, search |-> ""]

\* fetchCategories up to its await: setIsFetching(true) and the GET.
FetchCategoriesCall(bag, search, owner) ==
  /\ isFetching' = TRUE
  /\ inflight' = Send(bag, Request("GET", Params(search), owner))

\* Mutant: a response without data clears the list.
ListAfterClears(list, r) == IF r.hasData THEN r.data ELSE {}

\* fetchCategories after its await: the list state a response leaves.
ListAfter(list, r) == IF r.hasData THEN r.data ELSE list

\* fetchCategories: the toasts its catch block raises.
FetchToasts(r) == IF r.kind = "throw" THEN <<"error">> ELSE <<>>

\* The rows the table shows: it is rendered only while no fetch is running.
RowsShown == IF isFetching THEN {} ELSE categories

\* The state after mount: both effects have called fetchCategories.
PageInit ==
  /\ value = "" /\ delay = SearchDelay /\ debouncedValue = ""
  /\ handlers = SetTimeout({}, "")
  /\ heldMs = 0
  /\ categories = {}
  /\ isLoading = FALSE /\ isFetching = TRUE /\ isDeleting = FALSE
  /\ editingId = NoId
  /\ formName = Undefined
  /\ showDeletePopup = FALSE /\ categoryToDelete = NoId
  /\ inflight = Send(Send(EmptyBag, Request("GET", Params(""), "effect")),
                     Request("GET", Params(""), "effect"))
  /\ submitCall = NoSubmit
  /\ deleteCall = NoDelete
  /\ out = Quiet
  /\ lastData = {}
  /\ deletedEditing = NoId
  /\ FetchIdle
  /\ RestIdle

\* onChange of the search input, and handleClearSearch (v = "").
SetSearchText(v) ==
  /\ Room
  /\ SetValue(v)
  /\ out' = Quiet
  /\ UNCHANGED <<categories, isLoading, isFetching, isDeleting, editingId, formName,
                 showDeletePopup, categoryToDelete, inflight, submitCall, deleteCall>>
  /\ UNCHANGED <<lastData, deletedEditing>>
  /\ UNCHANGED offPage

PageTick ==
  /\ Tick
  /\ out' = Quiet
  /\ UNCHANGED <<categories, isLoading, isFetching, isDeleting, editingId, formName,
                 showDeletePopup, categoryToDelete, inflight, submitCall, deleteCall>>
  /\ UNCHANGED <<lastData, deletedEditing>>
  /\ UNCHANGED offPage

\* The debounce timeout fires; a changed debouncedSearch re-runs the search effect.
SearchTimeout(h) ==
  /\ TimeoutFires(h)
  /\ IF debouncedValue' # debouncedValue
       THEN FetchCategoriesCall(inflight, debouncedValue', "effect")
       ELSE UNCHANGED <<isFetching, inflight>>
  /\ out' = Quiet
  /\ UNCHANGED <<categories, isLoading, isDeleting, editingId, formName,
                 showDeletePopup, categoryToDelete, submitCall, deleteCall>>
  /\ UNCHANGED <<lastData, deletedEditing>>
  /\ UNCHANGED offPage

\* Mutant: a response is ignored while a newer list request is still in flight.
FetchResponseLatestOnly(req, r) ==
  /\ req \in Pending({"GET"}, "effect")
  /\ inflight' = Receive(inflight, req)
  /\ categories' = IF BagCardinality(inflight') = 0
                    THEN ListAfter(categories, r) ELSE categories
  /\ isFetching' = FALSE
  /\ out' = Out("GET", r, FetchToasts(r))
  /\ UNCHANGED <<isLoading, isDeleting, editingId, formName,
                 showDeletePopup, categoryToDelete, submitCall, deleteCall>>
  /\ UNCHANGED hookVars
  /\ lastData' = IF r.hasData THEN r.data ELSE lastData
  /\ UNCHANGED deletedEditing
  /\ UNCHANGED offPage

\* The response to a list request issued by the mount or the search effect.
FetchResponse(req, r) ==
  /\ req \in Pending({"GET"}, "effect")
  /\ inflight' = Receive(inflight, req)
  /\ categories' = ListAfter(categories, r)
  /\ isFetching' = FALSE
  /\ out' = Out("GET", r, FetchToasts(r))
  /\ UNCHANGED <<isLoading, isDeleting, editingId, formName,
                 showDeletePopup, categoryToDelete, submitCall, deleteCall>>
  /\ UNCHANGED hookVars
  /\ lastData' = IF r.hasData THEN r.data ELSE lastData
  /\ UNCHANGED deletedEditing
  /\ UNCHANGED offPage

\* The user types a name into the form.
SetName(n) ==
  /\ formName # n
  /\ formName' = n
  /\ out' = Quiet
  /\ UNCHANGED <<categories, isLoading, isFetching, isDeleting, editingId,
                 showDeletePopup, categoryToDelete, inflight, submitCall, deleteCall>>
  /\ UNCHANGED hookVars
  /\ UNCHANGED <<lastData, deletedEditing>>
  /\ UNCHANGED offPage

\* zodResolver(categorySchema) on the form's values.
CategoryValid(n) == n >= CategoryNameMin

\* Mutant: the form always creates, also in edit mode.
SubmitRequestAlwaysCreates(id) == Request("POST", NoId, "submit")

\* onSubmit: the request it sends, an update of the edited id or a create.
SubmitRequest(id) ==
  IF id # NoId THEN Request("PUT", id, "submit") ELSE Request("POST", NoId, "submit")

\* handleSubmit(onSubmit) up to the await of the PUT or POST.
HandleSubmit ==
  /\ Room
  /\ ~isLoading
  /\ CategoryValid(formName)
  /\ isLoading' = TRUE
  /\ submitCall' = [active |-> TRUE, editingId |-> editingId, search |-> debouncedSearch]
  /\ inflight' = Send(inflight, SubmitRequest(editingId))
  /\ out' = Quiet
  /\ UNCHANGED <<categories, isFetching, isDeleting, editingId, formName,
                 showDeletePopup, categoryToDelete, deleteCall>>
  /\ UNCHANGED hookVars
  /\ UNCHANGED <<lastData, deletedEditing>>
  /\ UNCHANGED offPage

\* Mutant: a failed update raises its toast in the handler and in the catch block.
SubmitToastsTwice(verb, r) ==
  CASE r.kind = "throw" /\ verb = "PUT" -> <<"error", "error">>
    [] r.kind = "throw" -> <<"error">>
    [] r.kind = "body" /\ (verb = "PUT" \/ r.success) -> <<"success">>
    [] OTHER -> <<>>

\* onSubmit: the toasts raised once the PUT or POST has settled.
SubmitToasts(verb, r) ==
  CASE r.kind = "throw" -> <<"error">>
    [] r.kind = "body" /\ (verb = "PUT" \/ r.success) -> <<"success">>
    [] OTHER -> <<>>

\* onSubmit after the await of the PUT or POST.
SubmitResponse(req, r) ==
  /\ req \in Pending({"PUT", "POST"}, "submit")
  /\ out' = Out(req.verb, r, SubmitToasts(req.verb, r))
  /\ IF r.kind = "body"
       THEN /\ editingId' = IF req.verb = "PUT" THEN NoId ELSE editingId
            /\ formName' = Undefined
            /\ FetchCategoriesCall(Receive(inflight, req), submitCall.search, "submit")
            /\ UNCHANGED <<isLoading, submitCall>>
       ELSE /\ inflight' = Receive(inflight, req)
            /\ isLoading' = FALSE
            /\ submitCall' = NoSubmit
            /\ UNCHANGED <<editingId, formName, isFetching>>
  /\ UNCHANGED <<categories, isDeleting, showDeletePopup, categoryToDelete, deleteCall>>
  /\ UNCHANGED hookVars
  /\ UNCHANGED <<lastData, deletedEditing>>
  /\ UNCHANGED offPage

\* onSubmit after the await of fetchCategories(debouncedSearch), and its finally.
SubmitRefreshResponse(req, r) ==
  /\ req \in Pending({"GET"}, "submit")
  /\ inflight' = Receive(inflight, req)
  /\ categories' = ListAfter(categories, r)
  /\ isFetching' = FALSE
  /\ isLoading' = FALSE
  /\ submitCall' = NoSubmit
  /\ out' = Out("GET", r, FetchToasts(r))
  /\ UNCHANGED <<isDeleting, editingId, formName, showDeletePopup, categoryToDelete,
                 deleteCall>>
  /\ UNCHANGED hookVars
  /\ lastData' = IF r.hasData THEN r.data ELSE lastData
  /\ UNCHANGED deletedEditing
  /\ UNCHANGED offPage

HandleEdit(id, n) ==
  /\ id \in RowsShown
  /\ editingId' = id
  /\ formName' = n
  /\ out' = Quiet
  /\ UNCHANGED <<categories, isLoading, isFetching, isDeleting,
                 showDeletePopup, categoryToDelete, inflight, submitCall, deleteCall>>
  /\ UNCHANGED hookVars
  /\ UNCHANGED <<lastData, deletedEditing>>
  /\ UNCHANGED offPage

HandleCancelEdit ==
  /\ editingId # NoId
  /\ editingId' = NoId
  /\ formName' = Undefined
  /\ out' = Quiet
  /\ UNCHANGED <<categories, isLoading, isFetching, isDeleting,
                 showDeletePopup, categoryToDelete, inflight, submitCall, deleteCall>>
  /\ UNCHANGED hookVars
  /\ UNCHANGED <<lastData, deletedEditing>>
  /\ UNCHANGED offPage

HandleDeleteClick(id) ==
  /\ id \in RowsShown
  /\ categoryToDelete' = id
  /\ showDeletePopup' = TRUE
  /\ out' = Quiet
  /\ UNCHANGED <<categories, isLoading, isFetching, isDeleting, editingId, formName,
                 inflight, submitCall, deleteCall>>
  /\ UNCHANGED hookVars
  /\ UNCHANGED <<lastData, deletedEditing>>
  /\ UNCHANGED offPage

\* The popup is rendered when showDeletePopup && categoryToDelete.
PopupShown == showDeletePopup /\ categoryToDelete # NoId

\* handleConfirmDelete up to the await of the DELETE.
HandleConfirmDelete ==
  /\ Room
  /\ PopupShown
  /\ ~isDeleting
  /\ isDeleting' = TRUE
  /\ deleteCall' = [active |-> TRUE, target |-> categoryToDelete,
                    search |-> debouncedSearch]
  /\ inflight' = Send(inflight, Request("DELETE", categoryToDelete, "delete"))
  /\ out' = Quiet
  /\ UNCHANGED <<categories, isLoading, isFetching, editingId, formName,
                 showDeletePopup, categoryToDelete, submitCall>>
  /\ UNCHANGED hookVars
  /\ UNCHANGED <<lastData, deletedEditing>>
  /\ UNCHANGED offPage

\* handleConfirmDelete: the toasts raised once the DELETE has settled.
DeleteToasts(r) == IF r.kind = "throw" THEN <<"error">> ELSE <<"success">>

\* handleConfirmDelete after the await of the DELETE.
DeleteResponse(req, r) ==
  /\ req \in Pending({"DELETE"}, "delete")
  /\ out' = Out("DELETE", r, DeleteToasts(r))
  /\ IF r.kind = "throw"
       THEN /\ inflight' = Receive(inflight, req)
            /\ isDeleting' = FALSE
            /\ deleteCall' = NoDelete
            /\ UNCHANGED isFetching
       ELSE /\ FetchCategoriesCall(Receive(inflight, req), deleteCall.search, "delete")
            /\ UNCHANGED <<isDeleting, deleteCall>>
  /\ UNCHANGED <<categories, isLoading, editingId, formName,
                 showDeletePopup, categoryToDelete, submitCall>>
  /\ UNCHANGED hookVars
  /\ UNCHANGED lastData
  /\ deletedEditing' = IF r.kind # "throw" /\ req.arg = editingId
                         THEN req.arg ELSE deletedEditing
  /\ UNCHANGED offPage

\* handleConfirmDelete after the await of fetchCategories, and its finally.
DeleteRefreshResponse(req, r) ==
  /\ req \in Pending({"GET"}, "delete")
  /\ inflight' = Receive(inflight, req)
  /\ categories' = ListAfter(categories, r)
  /\ isFetching' = FALSE
  /\ showDeletePopup' = FALSE
  /\ categoryToDelete' = NoId
  /\ isDeleting' = FALSE
  /\ deleteCall' = NoDelete
  /\ out' = Out("GET", r, FetchToasts(r))
  /\ UNCHANGED <<isLoading, editingId, formName, submitCall>>
  /\ UNCHANGED hookVars
  /\ lastData' = IF r.hasData THEN r.data ELSE lastData
  /\ UNCHANGED deletedEditing
  /\ UNCHANGED offPage

HandleCancelDelete ==
  /\ PopupShown
  /\ showDeletePopup' = FALSE
  /\ categoryToDelete' = NoId
  /\ out' = Quiet
  /\ UNCHANGED <<categories, isLoading, isFetching, isDeleting, editingId, formName,
                 inflight, submitCall, deleteCall>>
  /\ UNCHANGED hookVars
  /\ UNCHANGED <<lastData, deletedEditing>>
  /\ UNCHANGED offPage

PageNext ==
  \/ \E v \in SearchTexts : SetSearchText(v)
  \/ PageTick
  \/ \E h \in handlers : SearchTimeout(h)
  \/ \E req \in BagToSet(inflight), r \in ListResponses : FetchResponse(req, r)
  \/ \E n \in NameLens : SetName(n)
  \/ HandleSubmit
  \/ \E req \in BagToSet(inflight), r \in MutationResponses : SubmitResponse(req, r)
  \/ \E req \in BagToSet(inflight), r \in ListResponses : SubmitRefreshResponse(req, r)
  \/ \E id \in Ids, n \in NameLens : HandleEdit(id, n)
  \/ HandleCancelEdit
  \/ \E id \in Ids : HandleDeleteClick(id)
  \/ HandleConfirmDelete
  \/ \E req \in BagToSet(inflight), r \in MutationResponses : DeleteResponse(req, r)
  \/ \E req \in BagToSet(inflight), r \in ListResponses : DeleteRefreshResponse(req, r)
  \/ HandleCancelDelete

Spec == PageInit /\ [][PageNext]_vars

\* ------------------------------------------- list fetch, page by page

\* The variables the list-fetch pages leave alone.
offFetch == <<hookVars, pageVars, formVars, authVars, previewVars, noteVars, vendorVars, crudVars>>

FetchPages == {"categories", "faq", "vendors"}

\* The list requests in flight, above which no further one is started.
MaxFetches == 2

\* The responses the backend may give to a list request: a rejection, an empty
\* body, or a body with or without its success mark and its data array.
FetchResponses ==
  {[kind |-> "throw", data |-> {}, hasData |-> FALSE, success |-> FALSE],
   [kind |-> "nobody", data |-> {}, hasData |-> FALSE, success |-> FALSE]}
  \cup {[kind |-> "body", data |-> {}, hasData |-> FALSE, success |-> ok] :
          ok \in BOOLEAN}
  \cup {[kind |-> "body", data |-> d, hasData |-> TRUE, success |-> ok] :
          d \in Lists, ok \in BOOLEAN}

\* fetchFAQs after its await: faqs and filteredFaqs are set when res.data?.data.
FaqsAfter(list, r) == IF r.hasData THEN r.data ELSE list

\* fetchVendors after its await: on status 200 or success, response.data.data || [].
VendorsAfter(list, r) ==
  IF r.kind = "body" /\ r.success
    THEN (IF r.hasData THEN r.data ELSE {})
    ELSE list

RowsAfter(page, list, r) ==
  CASE page = "categories" -> ListAfter(list, r)
    [] page = "faq" -> FaqsAfter(list, r)
    [] page = "vendors" -> VendorsAfter(list, r)

\* The list requests the page's effects have issued once it is mounted.
MountFetches(page) == IF page = "vendors" THEN 1 ELSE 2

FetchOut(r, toasts) ==
  [resp |-> r.kind, success |-> r.success, hasData |-> r.hasData, toasts |-> toasts]

FetchInit ==
  /\ PageIdle
  /\ RestIdle
  /\ value = "" /\ delay = SearchDelay /\ debouncedValue = ""
  /\ handlers = {} /\ heldMs = 0
  /\ fetchPage \in FetchPages
  /\ rowData = {}
  /\ fetchBusy = TRUE
  /\ fetchPending = MountFetches(fetchPage)
  /\ fetchOut = FetchOut(NoResponse, <<>>)

\* The page calls its list fetch again (a search, a refresh after a mutation).
FetchStart ==
  /\ fetchPending < MaxFetches
  /\ fetchBusy' = TRUE
  /\ fetchPending' = fetchPending + 1
  /\ fetchOut' = FetchOut(NoResponse, <<>>)
  /\ UNCHANGED <<fetchPage, rowData>>
  /\ UNCHANGED offFetch

\* The list fetch after its await: try, catch and finally.
FetchSettles(r) ==
  /\ fetchPending > 0
  /\ fetchPending' = fetchPending - 1
  /\ rowData' = RowsAfter(fetchPage, rowData, r)
  /\ fetchBusy' = FALSE
  /\ fetchOut' = FetchOut(r, FetchToasts(r))
  /\ UNCHANGED fetchPage
  /\ UNCHANGED offFetch

FetchNext ==
  \/ FetchStart
  \/ \E r \in FetchResponses : FetchSettles(r)

SpecFetch == FetchInit /\ [][FetchNext]_vars

\* ------------------------------------------------------------------- C1
\* C1 (step part): the debounced value changes only to the current input, and only
\* after the input has held that value for the full delay; a change of the input
\* leaves no earlier timeout pending.
C1_Step ==
  /\ (debouncedValue' # debouncedValue) =>
        (debouncedValue' = value /\ heldMs >= delay)
  /\ (value' # value) =>
        (handlers' = {[val |-> value', elapsed |-> 0]})

\* C1: useDebounce emits v only after the input held v for the full delay, every
\* input change cancels the pending timer, and once the input stops changing the
\* debounced value eventually equals it.
C1_Debounce ==
  /\ [][C1_Step]_vars
  /\ \A v \in HookValues : <>[](value = v) => <>[](debouncedValue = v)

\* C1 witness: a typed value has been emitted after a full delay.
C1_Witness ==
  /\ debouncedValue = "ab"
  /\ value = "ab"
  /\ handlers = {}
  /\ heldMs >= delay

\* ------------------------------------------------------------------- C2
\* The step handles the response to a request of the given verbs.
Handled(verbs) == out'.verb \in verbs /\ inflight' # inflight

GetsOf(bag, owner) ==
  {r \in BagToSet(bag) : r.verb = "GET" /\ r.owner = owner}

\* C2 (step): a create or update response with a body resets the form and issues a
\* list fetch with the current debounced search while isLoading stays true, and
\* isLoading then falls only when that fetch completes; a successful delete issues a
\* list fetch, and the popup closes and isDeleting falls only when it completes.
C2_Step ==
  /\ (Handled({"PUT", "POST"}) /\ out'.resp = "body") =>
        /\ formName' = Undefined
        /\ GetsOf(inflight', "submit") = {Request("GET", Params(debouncedSearch), "submit")}
        /\ isLoading /\ isLoading'
  /\ (GetsOf(inflight, "submit") # {} /\ isLoading /\ ~isLoading') =>
        GetsOf(inflight', "submit") = {}
  /\ (Handled({"DELETE"}) /\ out'.resp # "throw") =>
        /\ GetsOf(inflight', "delete") = {Request("GET", Params(debouncedSearch), "delete")}
        /\ isDeleting /\ isDeleting'
  /\ (GetsOf(inflight, "delete") # {} /\ isDeleting /\ ~isDeleting') =>
        /\ GetsOf(inflight', "delete") = {}
        /\ ~showDeletePopup'

\* C2: after a create/update response with a body the form is reset and a list fetch
\* with the current debounced search completes before isLoading is false; after a
\* successful delete a list fetch completes before the popup closes.
C2_RefreshWithCurrentSearch == [][C2_Step]_vars

\* ------------------------------------------------------------------- C3
\* C3 (step): a failed create, update or delete raises exactly one error toast, sends
\* nothing, keeps the list, editingId and the delete target, and clears its flag.
C3_Step ==
  /\ (Handled({"PUT", "POST"}) /\ out'.resp = "throw") =>
        /\ out'.toasts = <<"error">>
        /\ \E req \in BagToSet(inflight) : inflight' = Receive(inflight, req)
        /\ UNCHANGED <<categories, editingId, categoryToDelete, showDeletePopup>>
        /\ ~isLoading'
  /\ (Handled({"DELETE"}) /\ out'.resp = "throw") =>
        /\ out'.toasts = <<"error">>
        /\ \E req \in BagToSet(inflight) : inflight' = Receive(inflight, req)
        /\ UNCHANGED <<categories, editingId, categoryToDelete, showDeletePopup>>
        /\ ~isDeleting'

\* C3: on the Category page a failed create, update or delete is caught, shows
\* exactly one error toast, triggers no request, leaves the list, editingId and the
\* delete target unchanged and returns isLoading / isDeleting to false.
C3_FailedMutation == [][C3_Step]_vars

\* C3 witness: an update in edit mode has just failed with the popup open.
C3_Witness ==
  /\ out.verb = "PUT" /\ out.resp = "throw"
  /\ editingId # NoId
  /\ PopupShown
  /\ ~isLoading

\* ------------------------------------------------------------------- C4
Gets(bag) == {r \in BagToSet(bag) : r.verb = "GET"}

\* C4 (step): issuing a request drops no list request in flight, and a list response
\* that carries data overwrites the list, whatever else is in flight.
C4_Step ==
  /\ (out'.verb # "GET") =>
        \A r \in Gets(inflight) : CopiesIn(r, inflight') >= CopiesIn(r, inflight)
  /\ (Handled({"GET"}) /\ out'.hasData) => categories' = out'.data

\* C4: a list fetch in flight is never cancelled or ignored when a newer one is
\* issued; every response with data overwrites the list in order of arrival, so the
\* list shown is that of the last response with data to arrive.
C4_LastArrivalWins ==
  /\ [][C4_Step]_vars
  /\ [](categories = lastData)

\* C4 witness: a response with data has overwritten the list while another list
\* request is still in flight.
C4_Witness ==
  /\ out.verb = "GET" /\ out.hasData /\ out.data = {"c1"}
  /\ categories = {"c1"}
  /\ Gets(inflight) # {}
  /\ debouncedSearch = "a"

\* ------------------------------------------------------------------- C8
\* C8 (step): a change of debouncedSearch issues exactly one list request, carrying
\* the search key exactly when the value is non-empty; a step that issues a list
\* request from the search effect comes only after the input held its value for the
\* whole delay; typing alone issues nothing.
C8_Step ==
  /\ (debouncedSearch' # debouncedSearch) =>
        inflight' = Send(inflight,
                         Request("GET",
                                 IF debouncedSearch' = "" THEN NoParam
                                                          ELSE debouncedSearch',
                                 "effect"))
  /\ (\E r \in GetsOf(inflight', "effect") :
          CopiesIn(r, inflight') > CopiesIn(r, inflight)) =>
        /\ debouncedSearch' # debouncedSearch
        /\ debouncedSearch' = searchText
        /\ heldMs >= SearchDelay
  /\ (searchText' # searchText) => inflight' = inflight

\* C8: every change of the debounced search issues one list request carrying the
\* value as search parameter exactly when it is non-empty, and typing issues no
\* request until the debounce delay has elapsed without further input.
C8_SearchFetch == [][C8_Step]_vars

\* C8 witness: a typed search has been debounced and its request is in flight.
C8_Witness ==
  /\ debouncedSearch = "a"
  /\ CopiesIn(Request("GET", "a", "effect"), inflight) = 1

\* ------------------------------------------------------------------- C9
\* The step handles a list response.
FetchSettled == fetchPending' < fetchPending

\* C9 as claimed (step): a list fetch that throws or whose response carries no data
\* leaves the list unchanged; the busy flag is cleared on every path; a thrown
\* failure raises one error notification.
C9_ClaimedStep ==
  FetchSettled =>
    /\ ~fetchBusy'
    /\ (fetchOut'.resp = "throw" \/ ~fetchOut'.hasData) => rowData' = rowData
    /\ (fetchOut'.resp = "throw") => fetchOut'.toasts = <<"error">>

\* C9 as claimed: on every page a failed or data-less list fetch leaves the list
\* unchanged, clears the busy flag and, when thrown, raises one notification.
C9_Claimed == [][C9_ClaimedStep]_vars

\* C9 amended (step): as claimed on the Category and FAQ pages; on the Vendors page
\* the list is unchanged when the fetch throws or the response reports no success,
\* and a successful response without data replaces it by the empty list.
C9_Step ==
  FetchSettled =>
    /\ ~fetchBusy'
    /\ (fetchOut'.resp = "throw") => fetchOut'.toasts = <<"error">>
    /\ (fetchOut'.resp = "throw") => rowData' = rowData
    /\ (fetchPage # "vendors" /\ ~fetchOut'.hasData) => rowData' = rowData
    /\ (fetchPage = "vendors" /\ ~fetchOut'.success) => rowData' = rowData
    /\ (fetchPage = "vendors" /\ fetchOut'.resp = "body" /\ fetchOut'.success
          /\ ~fetchOut'.hasData) => rowData' = {}

\* C9 amended: a failed list fetch leaves the list unchanged and raises one error
\* notification, a data-less response leaves it unchanged except for a successful
\* one on the Vendors page, which empties it, and the busy flag is always cleared.
C9_FailedFetch == [][C9_Step]_vars

\* C9 witness: a list fetch has failed on a page that shows rows.
C9_Witness ==
  /\ fetchOut.resp = "throw"
  /\ fetchOut.toasts = <<"error">>
  /\ rowData = {"c1", "c2"}
  /\ ~fetchBusy

\* ----------------------------------------------- the create/update forms

offForm == <<hookVars, pageVars, fetchVars, authVars, previewVars, noteVars, vendorVars, crudVars>>

FormPages == {"category", "subcategory", "blog", "faq"}

\* The minimum lengths of the zod schemas.
SubCategoryIdMin == 1
SubCategoryNameMin == 2
BlogTitleMin == 5
BlogShortMin == 10
BlogLongMin == 20
BlogDateMin == 1
FaqQuestionMin == 10
FaqAnswerMin == 20

\* The string fields of each zod schema: field |-> minimum length.
categorySchema == [name |-> CategoryNameMin]
subCategorySchema == [categoryId |-> SubCategoryIdMin, name |-> SubCategoryNameMin]
blogSchema ==
  [title |-> BlogTitleMin, sort_description |-> BlogShortMin,
   long_description |-> BlogLongMin, date |-> BlogDateMin]
faqSchema == [question |-> FaqQuestionMin, answer |-> FaqAnswerMin]

\* The schema each page passes to zodResolver.
Schema(page) ==
  CASE page = "category" -> categorySchema
    [] page = "subcategory" -> subCategorySchema
    [] page = "blog" -> blogSchema
    [] page = "faq" -> faqSchema

Fields(page) == DOMAIN Schema(page)

\* useForm's defaultValues; a field without one is undefined.
DefaultValues(page) ==
  IF page = "subcategory" THEN [categoryId |-> 0, name |-> 0]
  ELSE [f \in Fields(page) |-> Undefined]

\* What a user types into a field: one character short of the minimum, or the minimum.
Typed(page, f) == {Schema(page)[f] - 1, Schema(page)[f]}

\* A string field of a server row: missing, too short, or long enough.
RowValues(page, f) == {Undefined, Schema(page)[f] - 1, Schema(page)[f]}

\* blog_date as the server sends it, as the lengths of its "-"-separated parts:
\* missing, "", "DD-MM-YYYY", and a string without any "-".
RowDates == {<<>>, <<0>>, <<2, 2, 4>>, <<3>>}

RECURSIVE SumLen(_)
SumLen(parts) == IF parts = <<>> THEN 0 ELSE Head(parts) + SumLen(Tail(parts))

\* if (blogData.blog_date)
HasDate(parts) == Len(parts) > 0 /\ SumLen(parts) + Len(parts) - 1 > 0

\* `${year}-${month}-${day}` of blog_date.split('-'); a missing part prints as
\* "undefined".
DateForInput(parts) ==
  LET part(i) == IF i <= Len(parts) THEN parts[i] ELSE 9
  IN part(3) + 1 + part(2) + 1 + part(1)

\* The rows handleEdit may be called with.
Rows(page) ==
  CASE page = "category" -> {[name |-> n] : n \in RowValues(page, "name")}
    [] page = "subcategory" ->
         {[categoryId |-> c, name |-> n] :
            c \in RowValues(page, "categoryId"), n \in RowValues(page, "name")}
    [] page = "blog" ->
         {[title |-> t, sort_description |-> s, long_description |-> l, date |-> d, hasId |-> i] :
            t \in RowValues(page, "title"), s \in RowValues(page, "sort_description"),
            l \in RowValues(page, "long_description"), d \in RowDates, i \in BOOLEAN}
    [] page = "faq" ->
         {[question |-> q, answer |-> a] :
            q \in RowValues(page, "question"), a \in RowValues(page, "answer")}

\* x || ""
OrEmpty(x) == IF x = Undefined THEN 0 ELSE x

\* The setValue calls of each page's handleEdit.
CategoryEdit(row) == [name |-> OrEmpty(row.name)]
SubCategoryEdit(row) == [categoryId |-> row.categoryId, name |-> row.name]
BlogEdit(values, row) ==
  [title |-> row.title, sort_description |-> row.sort_description,
   long_description |-> OrEmpty(row.long_description),
   date |-> IF HasDate(row.date) THEN DateForInput(row.date) ELSE values.date]
FaqEdit(row) == [question |-> row.question, answer |-> row.answer]

ValuesAfterEdit(page, values, row) ==
  CASE page = "category" -> CategoryEdit(row)
    [] page = "subcategory" -> SubCategoryEdit(row)
    [] page = "blog" -> BlogEdit(values, row)
    [] page = "faq" -> FaqEdit(row)

\* setEditingId(blogData.id): a row without an id leaves the form in create mode.
EditingAfterEdit(page, row) == IF page = "blog" THEN row.hasId ELSE TRUE

ValidatesRequiredOnly(page, values) ==
  \A f \in Fields(page) : values[f] # Undefined /\ values[f] >= 1

\* zodResolver: every field is a string of at least its minimum length.
Validates(page, values) ==
  \A f \in Fields(page) : values[f] # Undefined /\ values[f] >= Schema(page)[f]

NothingSent(values) == [verb |-> "none", values |-> values]

FormInit ==
  /\ HookIdle /\ PageIdle /\ FetchIdle /\ AuthIdle /\ PreviewIdle /\ NoteIdle /\ VendorIdle /\ CrudIdle
  /\ formPage \in FormPages
  /\ formValues = DefaultValues(formPage)
  /\ formEditing = FALSE
  /\ formLoading = FALSE
  /\ formSent = NothingSent(formValues)

\* onChange of a registered input.
FormType(f, n) ==
  /\ f \in Fields(formPage)
  /\ n \in Typed(formPage, f)
  /\ formValues' = [formValues EXCEPT ![f] = n]
  /\ formSent' = NothingSent(formValues')
  /\ UNCHANGED <<formPage, formEditing, formLoading>>
  /\ UNCHANGED offForm

\* handleEdit (on the Blog page: once the blog's details have arrived).
FormHandleEdit(row) ==
  /\ formValues' = ValuesAfterEdit(formPage, formValues, row)
  /\ formEditing' = EditingAfterEdit(formPage, row)
  /\ formSent' = NothingSent(formValues')
  /\ UNCHANGED <<formPage, formLoading>>
  /\ UNCHANGED offForm

\* handleSubmit(onSubmit): the resolver runs first; onSubmit sends a PUT in edit
\* mode and a POST otherwise.
FormHandleSubmit ==
  /\ ~formLoading
  /\ IF Validates(formPage, formValues)
     THEN /\ formLoading' = TRUE
          /\ formSent' = [verb |-> IF formEditing THEN "PUT" ELSE "POST",
                          values |-> formValues]
     ELSE /\ formSent' = NothingSent(formValues)
          /\ UNCHANGED formLoading
  /\ UNCHANGED <<formPage, formValues, formEditing>>
  /\ UNCHANGED offForm

\* onSubmit after its await: a success resets the form and leaves edit mode.
FormSettles(ok) ==
  /\ formLoading
  /\ formLoading' = FALSE
  /\ formValues' = IF ok THEN DefaultValues(formPage) ELSE formValues
  /\ formEditing' = IF ok THEN FALSE ELSE formEditing
  /\ formSent' = NothingSent(formValues')
  /\ UNCHANGED formPage
  /\ UNCHANGED offForm

\* handleCancelEdit
FormCancelEdit ==
  /\ formEditing
  /\ formEditing' = FALSE
  /\ formValues' = DefaultValues(formPage)
  /\ formSent' = NothingSent(formValues')
  /\ UNCHANGED <<formPage, formLoading>>
  /\ UNCHANGED offForm

FormNext ==
  \/ \E f \in Fields(formPage) : \E n \in Typed(formPage, f) : FormType(f, n)
  \/ \E row \in Rows(formPage) : FormHandleEdit(row)
  \/ FormHandleSubmit
  \/ \E ok \in BOOLEAN : FormSettles(ok)
  \/ FormCancelEdit

SpecForms == FormInit /\ [][FormNext]_vars

\* ------------------------------------------------------------------- C5
\* C5: whenever the Category, Sub-category, Blog or FAQ form issues a POST or a
\* PUT, the values it sends are strings of at least the schema's minimum lengths
\* (name >= 2; parent id >= 1 and name >= 2; title >= 5, short description >= 10,
\* long description >= 20, date >= 1; question >= 10, answer >= 20), also when the
\* form was pre-filled by handleEdit.
C5_ValidatedRequests ==
  formSent.verb \in {"POST", "PUT"} =>
    LET v == formSent.values IN
    CASE formPage = "category" -> v.name >= 2
      [] formPage = "subcategory" -> v.categoryId >= 1 /\ v.name >= 2
      [] formPage = "blog" -> /\ v.title >= 5 /\ v.sort_description >= 10
                              /\ v.long_description >= 20 /\ v.date >= 1
      [] formPage = "faq" -> v.question >= 10 /\ v.answer >= 20

\* A PUT issued by the Blog form after handleEdit pre-filled it: the date sent is
\* the converted "DD-MM-YYYY" of the server row, which nobody typed.
C5_Witness ==
  /\ formPage = "blog" /\ formSent.verb = "PUT" /\ formEditing
  /\ formSent.values.date = DateForInput(<<2, 2, 4>>)

\* ------------------------------------------------------- the token gate

offAuth == <<hookVars, pageVars, fetchVars, formVars, previewVars, noteVars, vendorVars, crudVars>>

\* localStorage.getItem returns null, or the stored string (which may be empty).
NoToken == "null"
Tokens == {"t1", "t2"}
StoredTokens == {NoToken, ""} \cup Tokens

Paths == {"/login", "/dashboard", "/vendors"}
\* The navigations asked of the router that have not taken place yet, in order.
NoPush == <<>>
\* The user follows no further link while this many navigations are pending.
MaxPushes == 2
Unread == "unread"

\* The number of requests the pages keep in flight through the axios instance.
MaxApiPending == 2

StatusOk == 200
StatusUnauthorized == 401
\* The statuses of a response: a success, a 401, and another failure.
Statuses == {StatusOk, StatusUnauthorized, 500}

\* No response has passed the response interceptor yet.
NoAuthOut == [status |-> 0, rejected |-> FALSE, replaced |-> FALSE]

\* if (token): null and "" are falsy.
Truthy(token) == token # NoToken /\ token # ""

AuthenticatedAlways(token) == TRUE

\* DashboardPage's effect: setIsAuthenticated(true) in the else branch of !token.
AuthenticatedAfter(token) == Truthy(token)

\* Mutant: the header is set whatever getItem returned.
AuthorizationAlways(token) == token

\* The request interceptor: the Authorization header of a request.
Authorization(token) == IF Truthy(token) THEN token ELSE "none"

\* What DashboardPage returns.
DashboardContent == pathname = "/dashboard" /\ isAuthenticated

AuthInit ==
  /\ HookIdle /\ PageIdle /\ FetchIdle /\ FormIdle /\ PreviewIdle /\ NoteIdle /\ VendorIdle /\ CrudIdle
  /\ authToken \in StoredTokens
  /\ pathname = "/login"
  /\ routerPush = NoPush
  /\ apiPending = EmptyBag
  /\ isAuthenticated = FALSE
  /\ effectPending = FALSE
  /\ tokenRead = Unread
  /\ authOut = NoAuthOut

\* A page is mounted in place of the current one; DashboardPage starts with
\* useState(false) and its effect scheduled.
Mounted(path) ==
  /\ pathname' = path
  /\ isAuthenticated' = FALSE
  /\ effectPending' = (path = "/dashboard")
  /\ tokenRead' = Unread

\* The user follows a link to another page.
Navigate(path) ==
  /\ Len(routerPush) < MaxPushes
  /\ routerPush' = Append(routerPush, path)
  /\ UNCHANGED <<authToken, pathname, apiPending, isAuthenticated, effectPending, tokenRead>>
  /\ UNCHANGED authOut
  /\ UNCHANGED offAuth

\* DashboardPage's useEffect.
DashboardEffect ==
  /\ pathname = "/dashboard"
  /\ effectPending
  /\ effectPending' = FALSE
  /\ tokenRead' = authToken
  /\ isAuthenticated' = AuthenticatedAfter(authToken)
  /\ routerPush' = IF AuthenticatedAfter(authToken) THEN routerPush
                   ELSE Append(routerPush, "/login")
  /\ UNCHANGED <<authToken, pathname, apiPending>>
  /\ UNCHANGED authOut
  /\ UNCHANGED offAuth

\* The navigation router.push asked for takes place.
RouterPushCompletes ==
  /\ routerPush # NoPush
  /\ IF Head(routerPush) = pathname
     THEN UNCHANGED <<pathname, isAuthenticated, effectPending, tokenRead>>
     ELSE Mounted(Head(routerPush))
  /\ routerPush' = Tail(routerPush)
  /\ UNCHANGED <<authToken, apiPending>>
  /\ UNCHANGED authOut
  /\ UNCHANGED offAuth

\* The request interceptor, applied to a request for url.
Intercepted(url) == [url |-> url, auth |-> Authorization(authToken)]

\* LoginPage's onSubmit up to its await.
LoginSubmit ==
  /\ pathname = "/login"
  /\ Len(routerPush) < MaxPushes
  /\ BagCardinality(apiPending) < MaxApiPending
  /\ apiPending' = apiPending (+) SetToBag({Intercepted("login")})
  /\ UNCHANGED <<authToken, pathname, routerPush, isAuthenticated, effectPending, tokenRead>>
  /\ UNCHANGED authOut
  /\ UNCHANGED offAuth

\* An admin page calls the api.
ApiRequest ==
  /\ pathname = "/vendors"
  /\ BagCardinality(apiPending) < MaxApiPending
  /\ apiPending' = apiPending (+) SetToBag({Intercepted("api")})
  /\ UNCHANGED <<authToken, pathname, routerPush, isAuthenticated, effectPending, tokenRead>>
  /\ UNCHANGED authOut
  /\ UNCHANGED offAuth

\* Mutant: a 401 redirects on every path, /login included.
RedirectsAnywhere(status, path) == status = StatusUnauthorized

\* The response interceptor's error handler: whether it removes the token and
\* replaces the location.
Redirects(status, path) == status = StatusUnauthorized /\ path # "/login"

\* The response interceptor: the success handler returns the response, the error
\* handler returns Promise.reject(error).
Rejected(status) == status # StatusOk

\* A response arrives and passes the response interceptor: a 401 anywhere but on
\* /login removes the token and reloads the application at /login. Otherwise the
\* caller goes on: LoginPage's onSubmit stores the token of a successful login
\* under auth_token (saveToken) and asks the router for /dashboard.
ApiResponse(req, status, token) ==
  /\ req \in BagToSet(apiPending)
  /\ authOut' = [status |-> status, rejected |-> Rejected(status),
                  replaced |-> Redirects(status, pathname)]
  /\ IF Redirects(status, pathname)
     THEN /\ authToken' = NoToken
          /\ Mounted("/login")
          /\ routerPush' = NoPush
          /\ apiPending' = EmptyBag
     ELSE /\ apiPending' = apiPending (-) SetToBag({req})
          /\ IF req.url = "login" /\ status = StatusOk /\ Truthy(token)
             THEN authToken' = token /\ routerPush' = Append(routerPush, "/dashboard")
             ELSE UNCHANGED <<authToken, routerPush>>
          /\ UNCHANGED <<pathname, isAuthenticated, effectPending, tokenRead>>
  /\ UNCHANGED offAuth

AuthNext ==
  \/ \E path \in Paths : Navigate(path)
  \/ DashboardEffect
  \/ RouterPushCompletes
  \/ LoginSubmit
  \/ ApiRequest
  \/ \E req \in BagToSet(apiPending), status \in Statuses, token \in Tokens \cup {NoToken} :
       ApiResponse(req, status, token)

SpecAuth == AuthInit /\ [][AuthNext]_vars

\* ------------------------------------------------------------------- C6
\* C6: DashboardPage renders its content only after its effect has read a
\* non-empty auth_token from localStorage; when the effect finds no token it asks
\* the router for /login and the page keeps rendering nothing; isAuthenticated is
\* true only after a token was read.
C6_Step ==
  /\ (isAuthenticated' /\ ~isAuthenticated) => tokenRead' \in Tokens
  /\ (effectPending /\ ~effectPending' /\ pathname' = "/dashboard" /\ ~Truthy(authToken))
       => /\ routerPush' = Append(routerPush, "/login")
          /\ ~DashboardContent'

C6_AuthGate ==
  /\ [](DashboardContent => tokenRead \in Tokens)
  /\ [](isAuthenticated => tokenRead \in Tokens)
  /\ []((pathname = "/dashboard" /\ tokenRead \in {NoToken, ""})
          => /\ ~DashboardContent
             /\ \E i \in 1..Len(routerPush) : routerPush[i] = "/login")
  /\ [][C6_Step]_vars

\* The effect has found no token: nothing is rendered, /login is requested.
C6_Witness ==
  /\ pathname = "/dashboard" /\ tokenRead = NoToken
  /\ routerPush = <<"/login">> /\ ~isAuthenticated

\* ------------------------------------------------------ the image preview

offPreview == <<hookVars, pageVars, fetchVars, formVars, authVars, noteVars, vendorVars, crudVars>>

PreviewPages == {"category", "subcategory", "blog"}

\* The files a user drops.
Files == {"f1", "f2", "f3"}
\* The values of the form's image field that are not a list of files.
NoImage == {"undefined", ""}
\* previewImage === null, and an effect without a cleanup.
NoUrl == 0

\* The user drops no further file once URL.createObjectURL has returned this many
\* URLs.
MaxUrls == 16

\* URL.revokeObjectURL(url)
Revoke(urls, url) == urls \ {url}

\* The preview effect's cleanup: it revokes the URL that run of the effect created.
Cleanup(urls, url) == IF url = NoUrl THEN urls ELSE Revoke(urls, url)

PreviewInit ==
  /\ HookIdle /\ PageIdle /\ FetchIdle /\ FormIdle /\ AuthIdle /\ NoteIdle /\ VendorIdle /\ CrudIdle
  /\ previewPage \in PreviewPages
  /\ image = "undefined"
  /\ previewImage = NoUrl
  /\ objectUrls = {}
  /\ effectUrl = NoUrl
  /\ nextUrl = 1

\* onDrop with one accepted file, and the preview effect the new value triggers:
\* onDrop creates a URL for the file and sets it as the preview; the effect cleans
\* up its previous run, creates a URL of its own and sets that as the preview.
OnDrop(file) ==
  /\ nextUrl + 1 <= MaxUrls
  /\ image' = file
  /\ objectUrls' = Cleanup(objectUrls \cup {nextUrl}, effectUrl) \cup {nextUrl + 1}
  /\ previewImage' = nextUrl + 1
  /\ effectUrl' = nextUrl + 1
  /\ nextUrl' = nextUrl + 2
  /\ UNCHANGED previewPage
  /\ UNCHANGED offPreview

\* setPreviewImage(null) together with a value of the image field that holds no
\* file; the effect runs again only if the value has changed.
ClearImage(v) ==
  /\ image' = v
  /\ previewImage' = NoUrl
  /\ objectUrls' = IF image # v THEN Cleanup(objectUrls, effectUrl) ELSE objectUrls
  /\ effectUrl' = IF image # v THEN NoUrl ELSE effectUrl
  /\ UNCHANGED <<previewPage, nextUrl>>

\* The remove button on the preview: setValue('image', undefined).
RemoveImage == previewImage # NoUrl /\ ClearImage("undefined") /\ UNCHANGED offPreview

\* handleEdit: setValue('image', '').
PreviewHandleEdit == ClearImage("") /\ UNCHANGED offPreview

\* reset() after a successful submit and in handleCancelEdit.
PreviewReset == ClearImage("undefined") /\ UNCHANGED offPreview

PreviewNext ==
  \/ \E file \in Files : OnDrop(file)
  \/ RemoveImage
  \/ PreviewHandleEdit
  \/ PreviewReset

SpecPreview == PreviewInit /\ [][PreviewNext]_vars

\* ------------------------------------------------------------------- C7
\* C7: on the Category, Sub-category and Blog forms at most one object URL created
\* for a preview is unrevoked at any time, and none is while no image is selected.
C7_PreviewUrls ==
  /\ Cardinality(objectUrls) <= 1
  /\ image \in NoImage => objectUrls = {}

\* ------------------------------------ the Sub-category page's notification

offNote == <<hookVars, pageVars, fetchVars, formVars, authVars, previewVars, vendorVars, crudVars>>

\* setTimeout(..., 3000) of the auto-hide effect.
NoteDelay == 3000

\* Every setNotification({...}) creates a new object; objects are told apart by
\* a number, reused once this many newer objects have been created.
NoteIds == 3

\* The notifications the page's handlers set.
Notifications ==
  {[type |-> "error", message |-> "Failed to fetch categories"],
   [type |-> "success", message |-> "Sub-category created successfully"],
   [type |-> "error", message |-> "Failed to create sub-category"],
   [type |-> "success", message |-> "Sub-category updated successfully"],
   [type |-> "error", message |-> "Failed to update sub-category"],
   [type |-> "success", message |-> "Sub-category deleted successfully"],
   [type |-> "error", message |-> "Failed to delete sub-category"]}

\* notification !== null: the banner is rendered.
Shown == notification.type # "null"

NoNotification(last) == [id |-> last, type |-> "null", message |-> "null"]

NextNoteId(id) == (id % NoteIds) + 1

\* const timer = setTimeout(() => setNotification(null), 3000)
SetNoteTimeout(timers, id) == timers \cup {[id |-> id, elapsed |-> 0]}

KeepNoteTimeout(timers, id) == timers

\* The effect's cleanup: clearTimeout(timer), the timer of that run of the effect.
ClearNoteTimeout(timers, id) == {t \in timers : t.id # id}

NoteInit ==
  /\ HookIdle /\ PageIdle /\ FetchIdle /\ FormIdle /\ AuthIdle /\ PreviewIdle /\ VendorIdle /\ CrudIdle
  /\ notification = NoNotification(0)
  /\ noteTimers = {}
  /\ shownMs = 0
  /\ noteOut = "none"

\* A handler calls setNotification({type, message}); the effect runs again: the
\* cleanup of its previous run, then a new timeout.
SetNotification(n) ==
  /\ notification' = [id |-> NextNoteId(notification.id), type |-> n.type,
                      message |-> n.message]
  /\ noteTimers' = SetNoteTimeout(ClearNoteTimeout(noteTimers, notification.id),
                                  notification'.id)
  /\ shownMs' = 0
  /\ noteOut' = "set"
  /\ UNCHANGED offNote

\* The banner's close button: setNotification(null); the effect's cleanup runs.
DismissNotification ==
  /\ Shown
  /\ notification' = NoNotification(notification.id)
  /\ noteTimers' = ClearNoteTimeout(noteTimers, notification.id)
  /\ noteOut' = "dismiss"
  /\ UNCHANGED shownMs
  /\ UNCHANGED offNote

\* TickMs milliseconds pass.
NoteTick ==
  /\ noteTimers' = {[id |-> t.id, elapsed |-> Min(t.elapsed + TickMs, NoteDelay)] :
                      t \in noteTimers}
  /\ shownMs' = IF Shown THEN Min(shownMs + TickMs, NoteDelay) ELSE shownMs
  /\ noteOut' = "tick"
  /\ UNCHANGED notification
  /\ UNCHANGED offNote

\* A timeout's callback: setNotification(null); if that changes the state the
\* effect's cleanup runs.
NoteTimeout(t) ==
  /\ t \in noteTimers
  /\ t.elapsed >= NoteDelay
  /\ notification' = NoNotification(notification.id)
  /\ noteTimers' = IF Shown THEN ClearNoteTimeout(noteTimers \ {t}, notification.id)
                   ELSE noteTimers \ {t}
  /\ noteOut' = "timeout"
  /\ UNCHANGED shownMs
  /\ UNCHANGED offNote

NoteExpires == \E t \in noteTimers : NoteTimeout(t)

NoteNext ==
  \/ \E n \in Notifications : SetNotification(n)
  \/ DismissNotification
  \/ NoteTick
  \/ NoteExpires

SpecNote == NoteInit /\ [][NoteNext]_vars

\* Time passes, and a timeout that is due runs.
FairNote == SpecNote /\ WF_vars(NoteTick) /\ WF_vars(NoteExpires)

\* ------------------------------------------------------------------ C10
\* C10: on the Sub-category page a notification is cleared by its timer only once
\* it has been displayed for 3 seconds; setting a notification (also in place of
\* another one) starts a fresh 3-second timer and stops the previous one; a
\* displayed notification has exactly one timer, which has run for as long as the
\* notification has been displayed; and no notification stays displayed forever.
C10_Step ==
  /\ (noteOut' = "timeout" /\ Shown) => shownMs >= 3000 /\ ~Shown'
  /\ noteOut' = "set" =>
       /\ Shown' /\ shownMs' = 0
       /\ noteTimers' = {[id |-> notification'.id, elapsed |-> 0]}

C10_OneTimer ==
  IF Shown THEN noteTimers = {[id |-> notification.id, elapsed |-> shownMs]}
  ELSE noteTimers = {}

C10_Transient ==
  /\ [][C10_Step]_vars
  /\ []C10_OneTimer
  /\ \A id \in 1..NoteIds : ~<>[](Shown /\ notification.id = id)

\* A notification has been cleared by its timer after its 3 seconds.
C10_Witness == noteOut = "timeout" /\ ~Shown /\ shownMs = 3000 /\ notification.id > 1

\* ------------------------------------------------------------------ C11
\* C11: on the Category page isFetching is true whenever at least one list request
\* (of the mount effect, the search effect or a refresh after a mutation) is in
\* flight.
C11_FetchingWhileInFlight == Gets(inflight) # {} => isFetching

\* ------------------------------------------------------------ VendorsPage

offVendor == <<hookVars, pageVars, fetchVars, formVars, authVars, previewVars, noteVars,
               crudVars>>

\* The user starts no further request while this many are in flight.
MaxVendorCalls == 2

\* The options of a row's status selector.
VendorStatuses == {"pending", "approved", "rejected"}

\* What the backend answers to updateVendorStatus: the call throws, or the body
\* reports a failure, or it reports status 200 / success.
StatusResponses == {"throw", "failure", "success"}

VendorListRequest == [verb |-> "GET", kycId |-> "null", status |-> "null"]
VendorStatusRequest(kycId, status) == [verb |-> "POST", kycId |-> kycId, status |-> status]

VendorRoom == BagCardinality(vendorCalls) < MaxVendorCalls

\* The status selector of row kycId is rendered and not disabled: the table is
\* shown when isLoading is false and rowData is not empty, and the selector is
\* disabled={isUpdating === kycId}.
SelectorEnabled(kycId) ==
  /\ ~vendorLoading
  /\ kycId \in vendorRows
  /\ isUpdating # kycId

\* The state after mount: the effect has called fetchVendors.
VendorInit ==
  /\ HookIdle /\ PageIdle /\ FetchIdle /\ FormIdle /\ AuthIdle /\ PreviewIdle /\ NoteIdle
  /\ CrudIdle
  /\ vendorRows = {}
  /\ vendorLoading = TRUE
  /\ isUpdating = "null"
  /\ vendorCalls = SetToBag({VendorListRequest})
  /\ vendorOut = [step |-> "none", toasts |-> <<>>]

\* The Refresh button: fetchVendors up to its await.
HandleRefresh ==
  /\ VendorRoom
  /\ vendorLoading' = TRUE
  /\ vendorCalls' = vendorCalls (+) SetToBag({VendorListRequest})
  /\ vendorOut' = [step |-> "refresh", toasts |-> <<>>]
  /\ UNCHANGED <<vendorRows, isUpdating>>
  /\ UNCHANGED offVendor

\* fetchVendors after its await.
VendorListResponse(r) ==
  /\ VendorListRequest \in BagToSet(vendorCalls)
  /\ vendorCalls' = vendorCalls (-) SetToBag({VendorListRequest})
  /\ vendorRows' = VendorsAfter(vendorRows, r)
  /\ vendorLoading' = FALSE
  /\ vendorOut' = [step |-> "list", toasts |-> FetchToasts(r)]
  /\ UNCHANGED isUpdating
  /\ UNCHANGED offVendor

\* handleStatusChange up to its await: onChange of an enabled selector.
HandleStatusChange(kycId, status) ==
  /\ VendorRoom
  /\ SelectorEnabled(kycId)
  /\ isUpdating' = kycId
  /\ vendorCalls' = vendorCalls (+) SetToBag({VendorStatusRequest(kycId, status)})
  /\ vendorOut' = [step |-> "change", toasts |-> <<>>]
  /\ UNCHANGED <<vendorRows, vendorLoading>>
  /\ UNCHANGED offVendor

\* handleStatusChange after its await: a success calls fetchVendors without
\* awaiting it; the finally block clears isUpdating.
StatusResponse(req, r) ==
  /\ req \in BagToSet(vendorCalls)
  /\ req.verb = "POST"
  /\ vendorCalls' = IF r = "success"
                     THEN (vendorCalls (-) SetToBag({req})) (+) SetToBag({VendorListRequest})
                     ELSE vendorCalls (-) SetToBag({req})
  /\ vendorLoading' = IF r = "success" THEN TRUE ELSE vendorLoading
  /\ isUpdating' = "null"
  /\ vendorOut' = [step |-> "status",
                   toasts |-> IF r = "success" THEN <<"success">> ELSE <<"error">>]
  /\ UNCHANGED vendorRows
  /\ UNCHANGED offVendor

VendorNext ==
  \/ HandleRefresh
  \/ \E r \in FetchResponses : VendorListResponse(r)
  \/ \E kycId \in Ids, status \in VendorStatuses : HandleStatusChange(kycId, status)
  \/ \E req \in BagToSet(vendorCalls), r \in StatusResponses : StatusResponse(req, r)

SpecVendors == VendorInit /\ [][VendorNext]_vars

\* ------------------------------------------------------------------ C12
\* C12: on the Vendors page, while a status-update request for a row is in flight
\* that row's status selector is not available (not rendered, or disabled).
C12_SelectorDisabledWhileUpdating ==
  \A req \in BagToSet(vendorCalls) : req.verb = "POST" => ~SelectorEnabled(req.kycId)

\* ------------------------------------------------------------------ C13
\* The requests of the given verbs that this step has issued.
Issued(verbs) ==
  {r \in BagToSet(inflight') : r.verb \in verbs /\ CopiesIn(r, inflight') > CopiesIn(r, inflight)}

\* C13: on the Category page, once the delete of the category being edited has
\* succeeded, no PUT for the deleted id is issued afterwards.
C13_NoUpdateOfDeleted ==
  [][\A req \in Issued({"PUT"}) : req.arg # deletedEditing]_vars

\* ------------------------------------------------------------------ C14
\* C14: on the Category page a submit sends exactly one request, PUT for editingId
\* when editingId is set and POST otherwise; editingId becomes an id only by Edit on a
\* shown row; it is cleared only by Cancel Edit or by the response to an update that
\* carries a body; the response to a failed update leaves editingId as it is.
C14_EditMode ==
  [][/\ HandleSubmit => Cardinality(Issued({"PUT", "POST"})) = 1
     /\ \A req \in Issued({"PUT", "POST"}) :
          IF editingId # NoId THEN req.verb = "PUT" /\ req.arg = editingId
                              ELSE req.verb = "POST"
     /\ (editingId' # editingId /\ editingId' # NoId)
          => \E id \in RowsShown, n \in NameLens : HandleEdit(id, n)
     /\ (editingId # NoId /\ editingId' = NoId)
          => HandleCancelEdit \/ (out'.verb = "PUT" /\ out'.resp = "body")
     /\ (out'.verb = "PUT" /\ out'.resp # "body") => editingId' = editingId]_vars

\* A failed update has been answered and the page is still in edit mode.
C14_Witness == out.verb = "PUT" /\ out.resp = "throw" /\ editingId # NoId

\* ------------------------------------------------- create / update / delete
\* The submit, edit and delete handlers of the four list pages, side by side. The
\* form's values are not part of this state: a submit is one whose values pass
\* the resolver. The debounce is reduced to its effect, a list fetch.

offCrud == <<hookVars, pageVars, fetchVars, formVars, authVars, previewVars, noteVars,
             vendorVars>>

\* The user starts no further request while this many are in flight.
MaxCrudCalls == 2

CrudPages == {"category", "subcategory", "blog", "faq"}

\* The pages that confirm a delete in a popup; the FAQ page calls confirm().
PopupPages == {"category", "subcategory", "blog"}

\* The pages whose handlers await the list refresh they start.
AwaitsRefresh(page) == page # "subcategory"

\* Blog handleEdit: the GET of one blog throws, or carries blog_data or not.
EditResponses == {"throw", "nodata", "data"}

CrudRoom == BagCardinality(crudCalls) < MaxCrudCalls

CrudPending(verbs, owner) ==
  {r \in BagToSet(crudCalls) : r.verb \in verbs /\ r.owner = owner}

\* The rows the table shows: every page renders it only while isFetching is false.
CrudRowsShown == IF crudFetching THEN {} ELSE crudRows

\* The submit button: disabled={isLoading} on the Category page,
\* disabled={isLoading || isFetching} on the others.
SubmitEnabled ==
  IF crudPage = "category" THEN ~crudLoading ELSE ~crudLoading /\ ~crudFetching

CrudPopupShown == crudPopup /\ crudTarget # NoId

\* Mutant: the Confirm button is not disabled while a deletion runs.
ConfirmEnabledAlways == CrudPopupShown

\* The popup's Confirm button: rendered with the popup, disabled={isDeleting}.
ConfirmEnabled == CrudPopupShown /\ ~crudDeleting

\* The state after mount: the mount effect and the search effect have each
\* started a list fetch.
CrudInit ==
  /\ HookIdle /\ PageIdle /\ FetchIdle /\ FormIdle /\ AuthIdle /\ PreviewIdle /\ NoteIdle
  /\ VendorIdle
  /\ crudPage \in CrudPages
  /\ crudRows = {}
  /\ crudLoading = FALSE /\ crudFetching = TRUE /\ crudDeleting = FALSE
  /\ crudEditing = NoId
  /\ crudPopup = FALSE /\ crudTarget = NoId
  /\ crudCalls = Send(Send(EmptyBag, Request("GET", NoId, "effect")),
                      Request("GET", NoId, "effect"))
  /\ crudOut = [step |-> "none", resp |-> "none"]

\* The search effect re-runs with a changed debouncedSearch and fetches the list.
CrudSearchEffect ==
  /\ CrudRoom
  /\ crudFetching' = TRUE
  /\ crudCalls' = Send(crudCalls, Request("GET", NoId, "effect"))
  /\ crudOut' = [step |-> "effect", resp |-> "none"]
  /\ UNCHANGED <<crudPage, crudRows, crudLoading, crudDeleting, crudEditing, crudPopup,
                 crudTarget>>
  /\ UNCHANGED offCrud

\* The response to a list fetch started by an effect.
CrudListResponse(req, r) ==
  /\ req \in CrudPending({"GET"}, "effect")
  /\ crudCalls' = Receive(crudCalls, req)
  /\ crudRows' = ListAfter(crudRows, r)
  /\ crudFetching' = FALSE
  /\ crudOut' = [step |-> "list", resp |-> r.kind]
  /\ UNCHANGED <<crudPage, crudLoading, crudDeleting, crudEditing, crudPopup, crudTarget>>
  /\ UNCHANGED offCrud

\* handleEdit on a row: the Blog page first fetches the blog, the others enter
\* edit mode at once.
CrudHandleEdit(id) ==
  /\ id \in CrudRowsShown
  /\ IF crudPage = "blog"
       THEN /\ CrudRoom
            /\ crudFetching' = TRUE
            /\ crudCalls' = Send(crudCalls, Request("GET", id, "edit"))
            /\ UNCHANGED crudEditing
       ELSE /\ crudEditing' = id
            /\ UNCHANGED <<crudFetching, crudCalls>>
  /\ crudOut' = [step |-> "edit", resp |-> "none"]
  /\ UNCHANGED <<crudPage, crudRows, crudLoading, crudDeleting, crudPopup, crudTarget>>
  /\ UNCHANGED offCrud

\* Blog handleEdit after its await.
CrudEditResponse(req, r) ==
  /\ req \in CrudPending({"GET"}, "edit")
  /\ crudCalls' = Receive(crudCalls, req)
  /\ crudEditing' = IF r = "data" THEN req.arg ELSE crudEditing
  /\ crudFetching' = FALSE
  /\ crudOut' = [step |-> "editResponse", resp |-> r]
  /\ UNCHANGED <<crudPage, crudRows, crudLoading, crudDeleting, crudPopup, crudTarget>>
  /\ UNCHANGED offCrud

CrudCancelEdit ==
  /\ crudEditing # NoId
  /\ crudEditing' = NoId
  /\ crudOut' = [step |-> "cancelEdit", resp |-> "none"]
  /\ UNCHANGED <<crudPage, crudRows, crudLoading, crudFetching, crudDeleting, crudPopup,
                 crudTarget, crudCalls>>
  /\ UNCHANGED offCrud

\* handleSubmit(onSubmit) with valid values, up to the await of the PUT or POST.
CrudSubmit ==
  /\ CrudRoom
  /\ SubmitEnabled
  /\ crudLoading' = TRUE
  /\ crudCalls' = Send(crudCalls, SubmitRequest(crudEditing))
  /\ crudOut' = [step |-> "submit", resp |-> "none"]
  /\ UNCHANGED <<crudPage, crudRows, crudFetching, crudDeleting, crudEditing, crudPopup,
                 crudTarget>>
  /\ UNCHANGED offCrud

\* onSubmit / handleUpdate: edit mode after a response with a body. The Category
\* page leaves it only after an update, the others after every success.
EditingAfterSubmit(page, verb) ==
  IF page \in {"category", "subcategory"} /\ verb # "PUT" THEN crudEditing ELSE NoId

\* onSubmit / handleUpdate after the await of the PUT or POST: a response with a
\* body starts the refresh, which the Sub-category page does not await.
CrudSubmitResponse(req, r) ==
  /\ req \in CrudPending({"PUT", "POST"}, "submit")
  /\ crudOut' = [step |-> "submitResponse", resp |-> r.kind]
  /\ IF r.kind = "body"
       THEN /\ crudEditing' = EditingAfterSubmit(crudPage, req.verb)
            /\ crudFetching' = TRUE
            /\ crudCalls' = Send(Receive(crudCalls, req), Request("GET", NoId, "submit"))
            /\ crudLoading' = AwaitsRefresh(crudPage)
       ELSE /\ crudCalls' = Receive(crudCalls, req)
            /\ crudLoading' = FALSE
            /\ UNCHANGED <<crudEditing, crudFetching>>
  /\ UNCHANGED <<crudPage, crudRows, crudDeleting, crudPopup, crudTarget>>
  /\ UNCHANGED offCrud

\* The response to the refresh after a submit, and the handler's finally block
\* where the handler awaited it.
CrudSubmitRefreshResponse(req, r) ==
  /\ req \in CrudPending({"GET"}, "submit")
  /\ crudCalls' = Receive(crudCalls, req)
  /\ crudRows' = ListAfter(crudRows, r)
  /\ crudFetching' = FALSE
  /\ crudLoading' = IF AwaitsRefresh(crudPage) THEN FALSE ELSE crudLoading
  /\ crudOut' = [step |-> "submitRefresh", resp |-> r.kind]
  /\ UNCHANGED <<crudPage, crudDeleting, crudEditing, crudPopup, crudTarget>>
  /\ UNCHANGED offCrud

\* handleDeleteClick on a row of a page with a popup.
CrudDeleteClick(id) ==
  /\ crudPage \in PopupPages
  /\ id \in CrudRowsShown
  /\ crudTarget' = id
  /\ crudPopup' = TRUE
  /\ crudOut' = [step |-> "deleteClick", resp |-> "none"]
  /\ UNCHANGED <<crudPage, crudRows, crudLoading, crudFetching, crudDeleting, crudEditing,
                 crudCalls>>
  /\ UNCHANGED offCrud

\* FAQ handleDelete on a row, its confirm() accepted, up to the await of the DELETE.
FaqHandleDelete(id) ==
  /\ crudPage = "faq"
  /\ CrudRoom
  /\ id \in CrudRowsShown
  /\ crudCalls' = Send(crudCalls, Request("DELETE", id, "delete"))
  /\ crudOut' = [step |-> "faqDelete", resp |-> "none"]
  /\ UNCHANGED <<crudPage, crudRows, crudLoading, crudFetching, crudDeleting, crudEditing,
                 crudPopup, crudTarget>>
  /\ UNCHANGED offCrud

\* handleConfirmDelete up to the await of the DELETE.
CrudConfirmDelete ==
  /\ CrudRoom
  /\ ConfirmEnabled
  /\ crudDeleting' = TRUE
  /\ crudCalls' = Send(crudCalls, Request("DELETE", crudTarget, "delete"))
  /\ crudOut' = [step |-> "confirm", resp |-> "none"]
  /\ UNCHANGED <<crudPage, crudRows, crudLoading, crudFetching, crudEditing, crudPopup,
                 crudTarget>>
  /\ UNCHANGED offCrud

\* Mutant: every response to a DELETE counts as a success.
DeleteSucceedsAlways(page, kind) == TRUE

\* Whether the handler takes the response to a DELETE for a success: the Category
\* page whenever the call did not throw, the others when it carries a body.
DeleteSucceeds(page, kind) ==
  IF page = "category" THEN kind # "throw" ELSE kind = "body"

\* The pages that close the popup as soon as the DELETE has succeeded; the
\* Category page closes it after the refresh.
ClosesOnSuccess(page) == page \in {"subcategory", "blog"}

\* handleConfirmDelete (FAQ: handleDelete) after the await of the DELETE.
CrudDeleteResponse(req, r) ==
  /\ req \in CrudPending({"DELETE"}, "delete")
  /\ crudOut' = [step |-> "deleteResponse", resp |-> r.kind]
  /\ IF DeleteSucceeds(crudPage, r.kind)
       THEN /\ crudFetching' = TRUE
            /\ crudCalls' = Send(Receive(crudCalls, req), Request("GET", NoId, "delete"))
            /\ crudPopup' = IF ClosesOnSuccess(crudPage) THEN FALSE ELSE crudPopup
            /\ crudTarget' = IF ClosesOnSuccess(crudPage) THEN NoId ELSE crudTarget
            /\ crudDeleting' = IF AwaitsRefresh(crudPage) THEN crudDeleting ELSE FALSE
       ELSE /\ crudCalls' = Receive(crudCalls, req)
            /\ crudDeleting' = FALSE
            /\ UNCHANGED <<crudFetching, crudPopup, crudTarget>>
  /\ UNCHANGED <<crudPage, crudRows, crudLoading, crudEditing>>
  /\ UNCHANGED offCrud

\* The response to the refresh after a delete, and what the handler does after
\* awaiting it.
CrudDeleteRefreshResponse(req, r) ==
  /\ req \in CrudPending({"GET"}, "delete")
  /\ crudCalls' = Receive(crudCalls, req)
  /\ crudRows' = ListAfter(crudRows, r)
  /\ crudFetching' = FALSE
  /\ crudPopup' = IF crudPage = "category" THEN FALSE ELSE crudPopup
  /\ crudTarget' = IF crudPage = "category" THEN NoId ELSE crudTarget
  /\ crudDeleting' = IF crudPage \in {"category", "blog"} THEN FALSE ELSE crudDeleting
  /\ crudOut' = [step |-> "deleteRefresh", resp |-> r.kind]
  /\ UNCHANGED <<crudPage, crudLoading, crudEditing>>
  /\ UNCHANGED offCrud

\* handleCancelDelete: the popup's header X, and its Cancel button.
CrudCancelDelete ==
  /\ CrudPopupShown
  /\ crudPopup' = FALSE
  /\ crudTarget' = NoId
  /\ crudOut' = [step |-> "cancelDelete", resp |-> "none"]
  /\ UNCHANGED <<crudPage, crudRows, crudLoading, crudFetching, crudDeleting, crudEditing,
                 crudCalls>>
  /\ UNCHANGED offCrud

CrudNext ==
  \/ CrudSearchEffect
  \/ \E req \in BagToSet(crudCalls), r \in ListResponses : CrudListResponse(req, r)
  \/ \E id \in Ids : CrudHandleEdit(id)
  \/ \E req \in BagToSet(crudCalls), r \in EditResponses : CrudEditResponse(req, r)
  \/ CrudCancelEdit
  \/ CrudSubmit
  \/ \E req \in BagToSet(crudCalls), r \in MutationResponses : CrudSubmitResponse(req, r)
  \/ \E req \in BagToSet(crudCalls), r \in ListResponses : CrudSubmitRefreshResponse(req, r)
  \/ \E id \in Ids : CrudDeleteClick(id)
  \/ \E id \in Ids : FaqHandleDelete(id)
  \/ CrudConfirmDelete
  \/ \E req \in BagToSet(crudCalls), r \in MutationResponses : CrudDeleteResponse(req, r)
  \/ \E req \in BagToSet(crudCalls), r \in ListResponses : CrudDeleteRefreshResponse(req, r)
  \/ CrudCancelDelete

SpecCrud == CrudInit /\ [][CrudNext]_vars

\* ------------------------------------------------------------------ C15
\* The requests of the given verbs that this step of a list page has issued.
CrudIssued(verbs) ==
  {r \in BagToSet(crudCalls') :
     r.verb \in verbs /\ CopiesIn(r, crudCalls') > CopiesIn(r, crudCalls)}

\* What C15 requires of one step of a page with a popup.
DeleteConfirmationStep ==
  /\ crudPopup <=> (crudTarget # NoId)
  /\ crudPopup' <=> (crudTarget' # NoId)
  /\ \A req \in CrudIssued({"DELETE"}) :
       /\ crudOut'.step = "confirm"
       /\ crudPopup /\ crudTarget # NoId
       /\ req.arg = crudTarget
  /\ (crudOut'.step = "cancelDelete")
       => /\ CrudIssued({"GET", "POST", "PUT", "DELETE"}) = {}
          /\ ~crudPopup' /\ crudTarget' = NoId
  /\ (crudOut'.step = "deleteResponse" /\ crudOut'.resp = "throw")
       => (crudPopup' = crudPopup /\ crudTarget' = crudTarget)

\* C15: on the Category, Sub-category and Blog pages the popup flag is set exactly
\* when a delete target is selected; a DELETE is issued only by Confirm, with a target
\* selected, and for that target's id; Cancel issues no request and clears flag and
\* target; the response to a delete that failed leaves flag and target as they are.
C15_DeleteConfirmation ==
  [][(crudPage \in PopupPages) => DeleteConfirmationStep]_vars

\* A delete has failed and the popup is still open.
C15_Witness ==
  /\ crudPage \in PopupPages
  /\ crudOut.step = "deleteResponse" /\ crudOut.resp = "throw"
  /\ crudPopup /\ crudTarget # NoId

\* ------------------------------------------------------------------ C16
\* C16: on each page with a delete popup at most one DELETE is in flight; while a
\* DELETE is in flight Confirm is not available, whatever row the popup is open for;
\* and isDeleting is true only while the DELETE or the refresh after it is in flight.
C16_OneDeleteInFlight ==
  crudPage \in PopupPages =>
    /\ BagCardinality([r \in CrudPending({"DELETE"}, "delete") |-> crudCalls[r]]) <= 1
    /\ CrudPending({"DELETE"}, "delete") # {} => crudDeleting /\ ~ConfirmEnabled
    /\ crudDeleting => CrudPending({"DELETE", "GET"}, "delete") # {}

\* The popup was closed during a deletion and is open again for another row.
C16_Witness ==
  /\ crudPage \in PopupPages
  /\ crudDeleting
  /\ \E req \in CrudPending({"DELETE"}, "delete") :
       CrudPopupShown /\ crudTarget # req.arg

\* ------------------------------------------------------------------ C17
\* C17: on each create/update page the submit control stays disabled while the
\* submitted request or the list refresh that follows it is in flight.
C17_SubmitDisabledUntilRefreshed ==
  CrudPending({"POST", "PUT", "GET"}, "submit") # {} => ~SubmitEnabled

\* ------------------------------------------------------------------ C18
\* This step has passed a response through the response interceptor.
Responded == BagCardinality(apiPending') < BagCardinality(apiPending)

\* What C18 requires of the step that handles a response.
InterceptorStep ==
  /\ (authOut'.status = StatusUnauthorized /\ pathname # "/login")
       => (authToken' = NoToken /\ authOut'.replaced /\ pathname' = "/login")
  /\ (authOut'.status = StatusUnauthorized /\ pathname = "/login")
       => (authToken' = authToken /\ ~authOut'.replaced /\ pathname' = pathname)
  /\ (authOut'.status # StatusOk) => authOut'.rejected
  /\ (authOut'.status \notin {StatusOk, StatusUnauthorized})
       => (authToken' = authToken /\ ~authOut'.replaced /\ pathname' = pathname)

\* C18: a 401 received while the path is not /login removes auth_token and replaces
\* the location by /login; on /login it does neither; a 401 and every other error
\* status is rejected to the caller, and an error that does not redirect leaves the
\* token as it is.
C18_ResponseInterceptor == [][Responded => InterceptorStep]_vars

\* A 401 has removed the token and replaced the location, and was rejected.
C18_Witness ==
  /\ authOut.status = StatusUnauthorized /\ authOut.replaced /\ authOut.rejected
  /\ authToken = NoToken /\ pathname = "/login"

\* ------------------------------------------------------------------ C19
\* The requests this step has sent through the axios instance.
Sent ==
  {r \in BagToSet(apiPending') : CopiesIn(r, apiPending') > CopiesIn(r, apiPending)}

\* C19: a request carries the Authorization header of token t exactly when
\* localStorage holds the token t under auth_token at the moment it is sent; with no
\* token stored (never stored, removed by a 401, or the empty string) it carries none.
C19_RequestInterceptor ==
  [][\A req \in Sent : req.auth = IF authToken \in Tokens THEN authToken ELSE "none"]_vars

\* A 401 has removed the token and a request sent since then carries no header.
C19_Witness ==
  /\ authOut.replaced /\ authToken = NoToken
  /\ \E req \in BagToSet(apiPending) : req.auth = "none"

====
